---- MODULE Spec2Model ----
(***************************************************************************)
(* Model of the notebook image-text-embeddings-batch-endpoint.ipynb: a     *)
(* top-to-bottom run of its code cells against the Azure ML service.  The  *)
(* remote service and the file system are the environment: every remote    *)
(* call either returns or raises one of RemoteErrors.  An exception no     *)
(* cell handles stops the run (pc = stopped, raised = the exception type). *)
(***************************************************************************)
EXTENDS Integers, Sequences, FiniteSets, TLC

VARIABLES
    pc,               \* <<label, k>>: position in the notebook, k = section 1..3
    raised,           \* "None", or the type of the unhandled exception
    failedAt,         \* pc at which the unhandled exception was raised
    credential,       \* "None" | "DefaultAzureCredential" | "InteractiveBrowserCredential"
    workspace,        \* "None" | "from_config" | "placeholders"
    compute_exists,   \* remote: the compute target cpu-cluster exists
    compute_creates,  \* number of create requests issued for the compute target
    dataset,          \* file system: the files <<dir_name, file>> under dataset_dir
    image_path_list,  \* cell 3.1: sequence of <<dir_name, file>>
    image_list,       \* cell 3.1: sequence of encoded images
    image_path,       \* the global image_path left by the loop of cell 3.1
    batch_df,         \* the current DataFrame: sequence of <<image, text>> rows
    i,                \* the global loop variable i: <<>> unbound, <<v>> bound
    j,                \* the global j: <<>> unbound, <<v>> bound
    it,               \* next value the running for-loop's range iterator yields
    folders,          \* [1..3 -> sequence of files, oldest modification first]
    written,          \* [1..3 -> sequence of the to_csv calls of this run]
    endpoint,         \* remote: [exists, deployment, default] of the batch endpoint
    job,              \* the global job: <<>> is None, <<id>> a returned job
    e,                \* the exception bound by "except Exception as e"
    jobs,             \* remote: sequence of job statuses, job id = index
    inflight,         \* number of invoke calls issued and not yet returned
    trace,            \* calls made by the current invocation section, in order
    deploy_log,       \* remote: successful endpoint operations, in order
    failures,         \* <<call, exception>> of every failed call other than invoke
    history           \* [invokes, owner, reruns, completed]: invoke calls issued
                      \* by each section, the section that obtained each job,
                      \* the number of times the compute cell was run again,
                      \* and the sections whose download has returned

vars == <<pc, raised, failedAt, credential, workspace, compute_exists,
          compute_creates, dataset, image_path_list, image_list, image_path,
          batch_df, i, j, it, folders, written, endpoint, job, e, jobs, inflight, trace,
          deploy_log, failures, history>>

setupVars  == <<credential, workspace, compute_exists, compute_creates>>
dataVars   == <<dataset, image_path_list, image_list, image_path>>
chunkVars  == <<batch_df, j, it, folders, written>>
remoteVars == <<endpoint, job, e, jobs, inflight, trace, deploy_log>>

----------------------------------------------------------------------------
(* Bounds of the model *)

\* largest number of images of the dataset in the data preparation runs
MaxImages == 21
\* largest number of images of the dataset in the runs of the whole notebook
MaxScriptImages == 1

\* largest number of times the compute cell is run again
MaxReruns == 2

(* Program constants *)

batch_size_per_predict == 10
\* mutant: one attempt more
num_retries_more == 3 + 1

num_retries == 3
mini_batch_size == 2
sleep_seconds == 5

\* exceptions the remote client raises (both are subclasses of Exception)
RemoteErrors == {"HttpResponseError", "ResourceNotFoundError"}

\* class directories of the dataset
DirNames == {"can", "carton", "milk_bottle"}

\* os.path.join(dataset_dir, "milk_bottle", "99.jpg")
sample_image == <<"milk_bottle", 99>>

\* a dataset with a files in can, b files in carton and, when m = 1, the
\* sample image in milk_bottle; file n of can or carton is the n-th file
\* os.walk yields in that directory
Files(a, b, m) ==
    {<<"can", n>> : n \in 1..a} \cup {<<"carton", n>> : n \in 1..b}
       \cup (IF m = 1 THEN {sample_image} ELSE {})

\* the datasets of at most maxn images the archive may hold
Datasets(maxn) ==
    {Files(a, b, m) : <<a, b, m>> \in
        {t \in (0..maxn) \X (0..maxn) \X (0..1) : t[1] + t[2] + t[3] <= maxn}}

\* the orders in which os.listdir may return the class directories
DirOrders ==
    {o \in [1..Cardinality(DirNames) -> DirNames] :
        \A x, y \in DOMAIN o : x # y => o[x] # o[y]}

\* os.walk(dir_path): the files of one class directory, in order
RECURSIVE Walk(_, _)
Walk(fs, dir) ==
    LET here == {p \in fs : p[1] = dir}
    IN IF here = {} THEN <<>>
       ELSE LET first == CHOOSE p \in here : \A q \in here : p[2] <= q[2]
            IN <<first>> \o Walk(fs \ {first}, dir)

Sections == 1..3

Min(a, b) == IF a < b THEN a ELSE b

Bound(x) == x # <<>>
Val(x) == x[1]

----------------------------------------------------------------------------
(* Pure helpers of the data preparation cells *)

Digit(d) == CASE d = 0 -> "0" [] d = 1 -> "1" [] d = 2 -> "2" [] d = 3 -> "3"
              [] d = 4 -> "4" [] d = 5 -> "5" [] d = 6 -> "6" [] d = 7 -> "7"
              [] d = 8 -> "8" [] d = 9 -> "9"

\* str(n) for n >= 0: the decimal digits, most significant first
RECURSIVE Str(_)
Str(n) == IF n < 10 THEN <<Digit(n)>> ELSE Append(Str(n \div 10), Digit(n % 10))

batch_input_file == <<"batch_input.csv">>

\* str(i) + batch_input_file
FileName(off) == Str(off) \o batch_input_file

\* read_image(image_path): the base64 text of the file at that path
read_image(path) == <<"base64", path>>

\* "a photo of a " + os.path.basename(os.path.dirname(path))
PhotoText(path) == <<"a photo of a ", path[1]>>

\* mutant: the slice starts one row late
SliceSkipsFirst(df, lo, hi) == SubSeq(df, lo + 2, Min(hi, Len(df)))

\* batch_df[lo:hi] for 0 <= lo <= hi: rows lo .. min(hi, len) - 1 (0-based)
Slice(df, lo, hi) == SubSeq(df, lo + 1, Min(hi, Len(df)))

\* mutant: every chunk is written under one file name
FileNameFixed(dir, off) == FileName(0)

\* the file a chunk starting at offset off is written to in folder dir
ChunkFile(dir, off) == FileName(off)

\* to_csv(path): create the file, or replace it and its modification time
WriteFile(files, name, rows) ==
    Append(SelectSeq(files, LAMBDA f : f.name # name),
           [name |-> name, rows |-> rows])

\* the rows of the DataFrame each data preparation section builds
BuildRows(k) ==
    CASE k = 1 -> [n \in 1..Len(image_list) |-> <<image_list[n], "">>]
      [] k = 2 -> [n \in 1..Len(image_path_list) |->
                      <<"", PhotoText(image_path_list[n])>>]
      [] k = 3 -> [n \in 1..Len(image_list) |->
                      <<image_list[n], PhotoText(Val(image_path))>>]

\* files a folder may hold from an earlier run (os.makedirs(..., exist_ok=True))
StaleFolders ==
    { <<>>,
      << [name |-> FileName(0), rows |-> << <<"stale", "">> >>] >>,
      << [name |-> FileName(3 * batch_size_per_predict),
          rows |-> << <<"stale", "">> >>] >> }

----------------------------------------------------------------------------
(* Unhandled exception: the run stops *)

Stop(exc) ==
    /\ pc' = <<"stopped", 0>>
    /\ raised' = exc
    /\ failedAt' = pc

----------------------------------------------------------------------------
(* Cell 3.1: read the images of every class directory *)

Cell10 ==
    /\ pc = <<"cell10", 0>>
    /\ \E order \in DirOrders :
         LET paths == Walk(dataset, order[1]) \o Walk(dataset, order[2])
                         \o Walk(dataset, order[3])
         IN /\ image_path_list' = paths
            /\ image_list' = [n \in 1..Len(paths) |-> read_image(paths[n])]
            /\ image_path' = IF paths = <<>> THEN <<>> ELSE <<paths[Len(paths)]>>
    /\ pc' = <<"build", 1>>
    /\ UNCHANGED <<raised, failedAt, i, setupVars, dataset, chunkVars,
                   remoteVars, failures>>
    /\ UNCHANGED history

(* Cells 3.2/3.3/3.4, first cell: build the DataFrame of section k *)
BuildFrame(k) ==
    /\ pc = <<"build", k>>
    /\ batch_df' = BuildRows(k)
    /\ it' = 0
    /\ pc' = <<"chunk", k>>
    /\ UNCHANGED <<raised, failedAt, i, j, folders, written, setupVars,
                   dataVars, remoteVars, failures>>
    /\ UNCHANGED history

(* second cell, one iteration of
   for i in range(0, len(batch_df), batch_size_per_predict) *)
ChunkIter(k) ==
    /\ pc = <<"chunk", k>>
    /\ it < Len(batch_df)
    /\ i' = <<it>>
    /\ j' = <<it + batch_size_per_predict>>
    /\ LET rows == Slice(batch_df, it, it + batch_size_per_predict)
           name == ChunkFile(k, it)
       IN /\ folders' = [folders EXCEPT ![k] = WriteFile(@, name, rows)]
          /\ written' = [written EXCEPT ![k] =
                            Append(@, [name |-> name, off |-> it, rows |-> rows])]
    /\ it' = it + batch_size_per_predict
    /\ UNCHANGED <<pc, raised, failedAt, batch_df, setupVars, dataVars,
                   remoteVars, failures>>
    /\ UNCHANGED history

(* second cell, after the loop: print the first and the last file name *)
ChunkReport(k) ==
    /\ pc = <<"chunk", k>>
    /\ it >= Len(batch_df)
    /\ IF Len(folders[k]) = 0
         THEN Stop("IndexError")
         ELSE IF ~Bound(i)
           THEN Stop("NameError")
           ELSE /\ pc' = CASE k = 1 -> <<"sample", 0>>
                            [] k = 2 -> <<"build", 3>>
                            [] k = 3 -> <<"endpoint", 0>>
                /\ UNCHANGED <<raised, failedAt>>
    /\ UNCHANGED <<i, setupVars, dataVars, chunkVars, remoteVars, failures>>
    /\ UNCHANGED history

----------------------------------------------------------------------------
(* A call other than invoke fails *)

Failed(call, exc) == failures' = failures \cup {<<call, exc>>}

\* the call raises and nothing handles it
Propagate(call, exc) == Failed(call, exc) /\ Stop(exc)

----------------------------------------------------------------------------
(* Cell after 3.2: Image(filename=sample_image) reads the sample image *)

Cell14 ==
    /\ pc = <<"sample", 0>>
    /\ IF sample_image \in dataset
         THEN /\ pc' = <<"build", 2>>
              /\ UNCHANGED <<raised, failedAt, failures>>
         ELSE Propagate("Image", "FileNotFoundError")
    /\ UNCHANGED <<i, setupVars, dataVars, chunkVars, remoteVars>>
    /\ UNCHANGED history

----------------------------------------------------------------------------
(* Cell 1: credential, workspace configuration, clients *)

Cell2 ==
    /\ pc = <<"cell2", 0>>
    /\ \E token_exc \in {"None"} \cup RemoteErrors :
       \E config_exc \in {"None"} \cup RemoteErrors :
         \* try: get_token; except Exception: InteractiveBrowserCredential()
         /\ credential' = IF token_exc = "None"
                            THEN "DefaultAzureCredential"
                            ELSE "InteractiveBrowserCredential"
         \* try: MLClient.from_config; except Exception: the placeholders
         /\ workspace' = IF config_exc = "None" THEN "from_config"
                                                ELSE "placeholders"
         /\ failures' = failures
               \cup (IF token_exc = "None" THEN {}
                                           ELSE {<<"get_token", token_exc>>})
               \cup (IF config_exc = "None" THEN {}
                                            ELSE {<<"from_config", config_exc>>})
    /\ pc' = <<"compute", 0>>
    /\ UNCHANGED <<raised, failedAt, compute_exists, compute_creates, i,
                   dataVars, chunkVars, remoteVars>>
    /\ UNCHANGED history

\* mutant: the failed lookup is not handled
ComputeHandlesNothing(exc) == FALSE

\* except ResourceNotFoundError
ComputeHandles(exc) == exc = "ResourceNotFoundError"

(* Cell 1: get or create the compute cluster *)
Cell4 ==
    /\ pc = <<"compute", 0>>
    /\ \/ \* compute.get returns the existing cluster
          /\ compute_exists
          /\ pc' = <<"model", 0>>
          /\ UNCHANGED <<raised, failedAt, compute_exists, compute_creates,
                         failures>>
       \/ \* compute.get raises
          \E exc \in RemoteErrors :
            /\ exc = "ResourceNotFoundError" => ~compute_exists
            /\ IF ComputeHandles(exc)
                 THEN /\ compute_creates' = compute_creates + 1
                      /\ \/ /\ compute_exists' = TRUE
                            /\ failures' = failures \cup {<<"compute.get", exc>>}
                            /\ pc' = <<"model", 0>>
                            /\ UNCHANGED <<raised, failedAt>>
                         \/ /\ \E exc2 \in RemoteErrors :
                                 /\ failures' = failures \cup
                                      {<<"compute.get", exc>>,
                                       <<"compute.create", exc2>>}
                                 /\ Stop(exc2)
                            /\ UNCHANGED compute_exists
                 ELSE /\ Propagate("compute.get", exc)
                      /\ UNCHANGED <<compute_exists, compute_creates>>
    /\ UNCHANGED <<credential, workspace, i, dataVars, chunkVars, remoteVars>>
    /\ UNCHANGED history

(* the compute cell is run again after it has completed *)
RerunCell4 ==
    /\ pc = <<"model", 0>>
    /\ history.reruns < MaxReruns
    /\ history' = [history EXCEPT !.reruns = @ + 1]
    /\ pc' = <<"compute", 0>>
    /\ UNCHANGED <<raised, failedAt, i, setupVars, dataVars, chunkVars,
                   remoteVars, failures>>

(* Cell 2: look the model up in the registry *)
Cell6 ==
    /\ pc = <<"model", 0>>
    /\ \/ /\ pc' = <<"dataset", 0>>
          /\ UNCHANGED <<raised, failedAt, failures>>
       \/ \E exc \in RemoteErrors : Propagate("models.get", exc)
    /\ UNCHANGED <<i, setupVars, dataVars, chunkVars, remoteVars>>
    /\ UNCHANGED history

(* Cell 3: download and extract the dataset *)
Cell8(maxn) ==
    /\ pc = <<"dataset", 0>>
    /\ \/ /\ dataset' \in Datasets(maxn)
          /\ pc' = <<"cell10", 0>>
          /\ UNCHANGED <<raised, failedAt, failures>>
       \/ /\ Propagate("urlretrieve", "URLError")
          /\ UNCHANGED dataset
    /\ UNCHANGED <<i, setupVars, image_path_list, image_list, image_path,
                   chunkVars, remoteVars>>
    /\ UNCHANGED history

----------------------------------------------------------------------------
(* Section 4: endpoint, deployment, default deployment *)

deployment_name == "embed-clip-vit-base-patch32"

NoEndpoint == [exists |-> FALSE, deployments |-> {}, default |-> "None"]

(* create the batch endpoint *)
Cell23 ==
    /\ pc = <<"endpoint", 0>>
    /\ \/ /\ endpoint' = [endpoint EXCEPT !.exists = TRUE]
          /\ deploy_log' = Append(deploy_log, "endpoint")
          /\ pc' = <<"deployment", 0>>
          /\ UNCHANGED <<raised, failedAt, failures>>
       \/ /\ \E exc \in RemoteErrors : Propagate("endpoint.create", exc)
          /\ UNCHANGED <<endpoint, deploy_log>>
    /\ UNCHANGED <<i, setupVars, dataVars, chunkVars, job, e, jobs, inflight, trace>>
    /\ UNCHANGED history

(* create the batch deployment on the endpoint *)
Cell25 ==
    /\ pc = <<"deployment", 0>>
    /\ \/ /\ endpoint' = [endpoint EXCEPT !.deployments = @ \cup {deployment_name}]
          /\ deploy_log' = Append(deploy_log, "deployment")
          /\ pc' = <<"default", 0>>
          /\ UNCHANGED <<raised, failedAt, failures>>
       \/ /\ \E exc \in RemoteErrors : Propagate("deployment.create", exc)
          /\ UNCHANGED <<endpoint, deploy_log>>
    /\ UNCHANGED <<i, setupVars, dataVars, chunkVars, job, e, jobs, inflight, trace>>
    /\ UNCHANGED history

\* mutant: a failed update of the endpoint is swallowed and the run goes on
DefaultFailureIgnored(exc) ==
    /\ Failed("endpoint.update", exc)
    /\ pc' = <<"start", 1>>
    /\ UNCHANGED <<raised, failedAt>>

\* the get or the update of the endpoint raises: nothing handles it
DefaultFailure(exc) == Propagate("endpoint.update", exc)

(* get the endpoint, set its default deployment, update it *)
Cell27 ==
    /\ pc = <<"default", 0>>
    /\ \/ /\ endpoint' = [endpoint EXCEPT !.default = deployment_name]
          /\ deploy_log' = Append(deploy_log, "default")
          /\ pc' = <<"start", 1>>
          /\ UNCHANGED <<raised, failedAt, failures>>
       \/ /\ \E exc \in RemoteErrors : DefaultFailure(exc)
          /\ UNCHANGED <<endpoint, deploy_log>>
    /\ UNCHANGED <<i, setupVars, dataVars, chunkVars, job, e, jobs, inflight, trace>>
    /\ UNCHANGED history

----------------------------------------------------------------------------
(* Sections 5.1/5.2/5.3: invoke with retries, stream, download *)

\* a call of the section: n is the attempt index (invoke, raise) or the
\* seconds (sleep), jb the job returned or used, 0 when there is none
Event(op, n, res, jb) == [op |-> op, n |-> n, res |-> res, job |-> jb]

\* range(num_retries)
RetryRange == 0..(num_retries - 1)

\* mutant: the last attempt is not recognised
IsLastAttemptNever(n) == n = num_retries

\* if i == num_retries - 1
IsLastAttempt(n) == n = num_retries - 1

\* mutant: a missing resource is not retried
CaughtTransientOnly(exc) == exc # "ResourceNotFoundError"

\* except Exception: every exception the client raises is caught
Caught(exc) == exc \in RemoteErrors

\* mutant: the exception of the first failed attempt is raised
RaisedFirst(tr, exc) ==
    LET fails == SelectSeq(tr, LAMBDA ev : ev.op = "invoke" /\ ev.res # "ok")
    IN IF fails = <<>> THEN exc ELSE fails[1].res

\* raise e: the exception just caught, as it is
Raised(tr, exc) == exc

\* mutant: the delay grows with the attempt number
SleepBackoff(n) == sleep_seconds * (n + 1)

\* time.sleep(5)
SleepFor(n) == sleep_seconds

\* mutant: the job is streamed whether or not the loop has obtained one
StreamAlways(jb) == TRUE

\* if job is not None
JobIsNotNone(jb) == jb # <<>>

\* mutant: stream returns at once
StreamDoneAtOnce(status) == TRUE

\* jobs.stream returns once the job has completed
StreamDone(status) == status = "Completed"

\* mutant: the attempts used so far carry over into the next section
StageStartSharedBudget(k) ==
    /\ pc = <<"start", k>>
    /\ job' = <<>>
    /\ it' = IF k = 1 THEN 0 ELSE it
    /\ trace' = <<>>
    /\ pc' = <<"loop", k>>
    /\ UNCHANGED <<raised, failedAt, i, batch_df, j, folders, written, setupVars,
                   dataVars, endpoint, e, jobs, inflight, deploy_log, failures,
                   history>>

(* job = None; input = ...; num_retries = 3; the for loop starts *)
StageStart(k) ==
    /\ pc = <<"start", k>>
    /\ job' = <<>>
    /\ it' = 0
    /\ trace' = <<>>
    /\ pc' = <<"loop", k>>
    /\ UNCHANGED <<raised, failedAt, i, batch_df, j, folders, written, setupVars,
                   dataVars, endpoint, e, jobs, inflight, deploy_log, failures>>
    /\ UNCHANGED history

(* next iteration of for i in range(num_retries): the invoke call is issued *)
InvokeCall(k) ==
    /\ pc = <<"loop", k>>
    /\ it \in RetryRange
    /\ i' = <<it>>
    /\ it' = it + 1
    /\ inflight' = inflight + 1
    /\ pc' = <<"invoking", k>>
    /\ UNCHANGED <<raised, failedAt, batch_df, j, folders, written, setupVars,
                   dataVars, endpoint, job, e, jobs, trace, deploy_log, failures>>
    /\ history' = [history EXCEPT !.invokes[k] = @ + 1]

(* the invoke call returns a job: break *)
InvokeReturns(k) ==
    /\ pc = <<"invoking", k>>
    /\ inflight' = inflight - 1
    /\ jobs' = Append(jobs, "Running")
    /\ job' = <<Len(jobs) + 1>>
    /\ trace' = Append(trace, Event("invoke", Val(i), "ok", Len(jobs) + 1))
    /\ pc' = <<"afterloop", k>>
    /\ UNCHANGED <<raised, failedAt, i, setupVars, dataVars, chunkVars, endpoint,
                   e, deploy_log, failures>>
    /\ history' = [history EXCEPT !.owner = Append(@, k)]

(* the invoke call raises: raise on the last attempt, else go to sleep; the
   name e is bound inside the except block only *)
InvokeRaises(k) ==
    /\ pc = <<"invoking", k>>
    /\ inflight' = inflight - 1
    /\ \E exc \in RemoteErrors :
         LET tr == Append(trace, Event("invoke", Val(i), exc, 0))
         IN IF ~Caught(exc)
              THEN /\ Stop(exc)
                   /\ trace' = Append(tr, Event("raise", Val(i), exc, 0))
                   /\ UNCHANGED e
              ELSE IF IsLastAttempt(Val(i))
                     THEN /\ Stop(Raised(trace, exc))
                          /\ trace' = Append(tr, Event("raise", Val(i),
                                                       Raised(trace, exc), 0))
                          /\ e' = "None"
                     ELSE /\ e' = exc
                          /\ pc' = <<"sleep", k>>
                          /\ trace' = tr
                          /\ UNCHANGED <<raised, failedAt>>
    /\ UNCHANGED <<i, setupVars, dataVars, chunkVars, endpoint, job, jobs,
                   deploy_log, failures>>
    /\ UNCHANGED history

(* time.sleep(5), then the loop goes on or is exhausted *)
Sleep(k) ==
    /\ pc = <<"sleep", k>>
    /\ trace' = Append(trace, Event("sleep", SleepFor(Val(i)), "ok", 0))
    /\ e' = "None"
    /\ pc' = IF it \in RetryRange THEN <<"loop", k>> ELSE <<"afterloop", k>>
    /\ UNCHANGED <<raised, failedAt, i, setupVars, dataVars, chunkVars, endpoint,
                   job, jobs, inflight, deploy_log, failures>>
    /\ UNCHANGED history

(* if job is not None: jobs.stream(job.name) is called
   (job.name of None is an AttributeError) *)
AfterLoop(k) ==
    /\ pc = <<"afterloop", k>>
    /\ IF JobIsNotNone(job)
         THEN IF job = <<>>
           THEN /\ Stop("AttributeError")
                /\ UNCHANGED trace
           ELSE /\ trace' = Append(trace, Event("stream", 0, "called", Val(job)))
                /\ pc' = <<"streaming", k>>
                /\ UNCHANGED <<raised, failedAt>>
         ELSE /\ pc' = <<"download", k>>
              /\ UNCHANGED <<raised, failedAt, trace>>
    /\ UNCHANGED <<i, setupVars, dataVars, chunkVars, endpoint, job, e, jobs,
                   inflight, deploy_log, failures>>
    /\ UNCHANGED history

(* the remote service finishes a running job *)
RemoteJobCompletes ==
    /\ \E id \in 1..Len(jobs) :
         /\ jobs[id] = "Running"
         /\ jobs' = [jobs EXCEPT ![id] = "Completed"]
    /\ UNCHANGED <<pc, raised, failedAt, i, setupVars, dataVars, chunkVars,
                   endpoint, job, e, inflight, trace, deploy_log, failures>>
    /\ UNCHANGED history

(* jobs.stream returns when the job has completed, or raises *)
StreamReturns(k) ==
    /\ pc = <<"streaming", k>>
    /\ \/ /\ StreamDone(jobs[Val(job)])
          /\ trace' = Append(trace, Event("stream", 0, "ok", Val(job)))
          /\ pc' = <<"download", k>>
          /\ UNCHANGED <<raised, failedAt, failures>>
       \/ \E exc \in RemoteErrors :
            /\ trace' = Append(trace, Event("stream", 0, exc, Val(job)))
            /\ Propagate("jobs.stream", exc)
    /\ UNCHANGED <<i, setupVars, dataVars, chunkVars, endpoint, job, e, jobs,
                   inflight, deploy_log>>
    /\ UNCHANGED history

\* mutant: the endpoint is deleted after the first section
DeleteAfterFirst(k) == <<"delete", 0>>

\* the cell that follows the download cell of section k
AfterDownload(k) == IF k < 3 THEN <<"start", k + 1>> ELSE <<"delete", 0>>

(* next cell: look the scoring job up and download its output
   (job.name of None is an AttributeError) *)
Download(k) ==
    /\ pc = <<"download", k>>
    /\ IF job = <<>>
         THEN /\ Stop("AttributeError")
              /\ UNCHANGED <<trace, failures, history>>
         ELSE \/ /\ trace' = Append(trace, Event("download", 0, "ok", Val(job)))
                 /\ pc' = AfterDownload(k)
                 /\ history' = [history EXCEPT !.completed = Append(@, k)]
                 /\ UNCHANGED <<raised, failedAt, failures>>
              \/ \E exc \in RemoteErrors :
                   /\ trace' = Append(trace, Event("download", 0, exc, Val(job)))
                   /\ Propagate("jobs.download", exc)
                   /\ UNCHANGED history
    /\ UNCHANGED <<i, setupVars, dataVars, chunkVars, endpoint, job, e, jobs,
                   inflight, deploy_log>>

(* Section 6: delete the endpoint *)
Cell38 ==
    /\ pc = <<"delete", 0>>
    /\ \/ /\ endpoint' = NoEndpoint
          /\ deploy_log' = Append(deploy_log, "delete")
          /\ pc' = <<"done", 0>>
          /\ UNCHANGED <<raised, failedAt, failures>>
       \/ /\ \E exc \in RemoteErrors : Propagate("endpoint.delete", exc)
          /\ UNCHANGED <<endpoint, deploy_log>>
    /\ UNCHANGED <<i, setupVars, dataVars, chunkVars, job, e, jobs, inflight, trace>>
    /\ UNCHANGED history

----------------------------------------------------------------------------
(* Specifications *)

FreshState ==
    /\ raised = "None"
    /\ failedAt = <<"none", 0>>
    /\ compute_creates = 0
    /\ image_path_list = <<>>
    /\ image_list = <<>>
    /\ image_path = <<>>
    /\ batch_df = <<>>
    /\ i = <<>>
    /\ j = <<>>
    /\ it = 0
    /\ \E stale \in StaleFolders : folders = [k \in Sections |-> stale]
    /\ written = [k \in Sections |-> <<>>]
    /\ endpoint = NoEndpoint
    /\ job = <<>>
    /\ e = "None"
    /\ jobs = <<>>
    /\ inflight = 0
    /\ trace = <<>>
    /\ deploy_log = <<>>
    /\ failures = {}
    /\ history = [invokes |-> [k \in Sections |-> 0], owner |-> <<>>,
                  reruns |-> 0, completed |-> <<>>]

\* a fresh kernel before the first code cell
Init ==
    /\ pc = <<"cell2", 0>>
    /\ credential = "None"
    /\ workspace = "None"
    /\ compute_exists \in BOOLEAN
    /\ dataset = {}
    /\ FreshState

\* the run after the setup cells have succeeded, before cell 3.1
InitPrep ==
    /\ pc = <<"cell10", 0>>
    /\ credential = "DefaultAzureCredential"
    /\ workspace = "from_config"
    /\ compute_exists = TRUE
    /\ dataset \in Datasets(MaxImages)
    /\ FreshState

NextPrep ==
    \/ Cell10
    \/ Cell14
    \/ \E k \in Sections : BuildFrame(k)
    \/ \E k \in Sections : ChunkIter(k)
    \/ \E k \in Sections : ChunkReport(k)

Next ==
    \/ Cell2
    \/ Cell4
    \/ Cell6
    \/ Cell8(MaxScriptImages)
    \/ Cell10
    \/ Cell14
    \/ \E k \in Sections : BuildFrame(k)
    \/ \E k \in Sections : ChunkIter(k)
    \/ \E k \in Sections : ChunkReport(k)
    \/ Cell23
    \/ Cell25
    \/ Cell27
    \/ \E k \in Sections : StageStart(k)
    \/ \E k \in Sections : InvokeCall(k)
    \/ \E k \in Sections : InvokeReturns(k)
    \/ \E k \in Sections : InvokeRaises(k)
    \/ \E k \in Sections : Sleep(k)
    \/ \E k \in Sections : AfterLoop(k)
    \/ RemoteJobCompletes
    \/ \E k \in Sections : StreamReturns(k)
    \/ \E k \in Sections : Download(k)
    \/ Cell38

\* the whole notebook, run top to bottom
Spec == Init /\ [][Next]_vars

\* the data preparation cells 3.1 to 3.4
SpecPrep == InitPrep /\ [][NextPrep]_vars

NextCompute ==
    \/ Cell2
    \/ Cell4
    \/ RerunCell4

\* the setup cells, where the compute cell may be run again
SpecCompute == Init /\ [][NextCompute]_vars

\* a step of the retry cell of an invocation section
StageStep ==
    \E k \in Sections :
       \/ StageStart(k)
       \/ InvokeCall(k)
       \/ InvokeReturns(k)
       \/ InvokeRaises(k)
       \/ Sleep(k)
       \/ AfterLoop(k)

\* the whole notebook, where the interpreter keeps executing the retry cell
\* and every invoke call returns or raises
SpecLive == Init /\ [][Next]_vars /\ WF_vars(StageStep)

----------------------------------------------------------------------------
(* Properties of the data preparation cells *)

\* the section whose chunking cell is running, has run, or has just raised
InChunk(k) == pc = <<"chunk", k>>
ChunkLoopDone(k) ==
    \/ pc = <<"chunk", k>> /\ it >= Len(batch_df)
    \/ pc = <<"stopped", 0>> /\ failedAt = <<"chunk", k>>
    \/ pc = <<"build", k + 1>>
    \/ k = 3 /\ pc = <<"endpoint", 0>>
ChunkActive(k) == InChunk(k) \/ ChunkLoopDone(k)

RECURSIVE ConcatRows(_)
ConcatRows(ws) ==
    IF ws = <<>> THEN <<>> ELSE ws[1].rows \o ConcatRows(Tail(ws))

\* the positions of batch_df (0-based) a written chunk covers
Covered(w) == {w.off + r - 1 : r \in 1..Len(w.rows)}

\* C1: the chunks written by a chunking loop are contiguous, pairwise
\* non-overlapping slices of the row sequence, the m-th starting at offset
\* (m-1)*10, each of exactly 10 rows except possibly the last, and once the
\* loop has ended their concatenation in offset order is the row sequence.
C1_ChunksPartitionRows ==
    \A k \in Sections : ChunkActive(k) =>
      LET ws == written[k]
          n == Len(batch_df)
      IN /\ \A m \in 1..Len(ws) :
              /\ ws[m].off = (m - 1) * 10
              /\ Len(ws[m].rows) <= 10
              /\ ws[m].off + Len(ws[m].rows) <= n
              /\ \A r \in 1..Len(ws[m].rows) :
                     ws[m].rows[r] = batch_df[ws[m].off + r]
              /\ m < Len(ws) => Len(ws[m].rows) = 10
              /\ Len(ws[m].rows) < 10 => ws[m].off + Len(ws[m].rows) = n
         /\ \A m1, m2 \in 1..Len(ws) :
              m1 # m2 => Covered(ws[m1]) \cap Covered(ws[m2]) = {}
         /\ ChunkLoopDone(k) => ConcatRows(ws) = batch_df

\* three chunks were written, the last one partial, and the loop has ended
C1_Witness ==
    /\ ChunkLoopDone(1)
    /\ Len(written[1]) = 3
    /\ Len(written[1][3].rows) = 1
    /\ Len(batch_df) = 21

\* C7: the chunking cell, with its report of the first and last file name,
\* runs to completion without raising for every row count n >= 0.
C7_ChunkCellNeverRaises ==
    \A k \in Sections :
      ~(pc = <<"stopped", 0>> /\ failedAt = <<"chunk", k>>)

\* C8: the chunk at offset i is written to the file str(i) + 'batch_input.csv',
\* distinct chunks get distinct names and none is overwritten by a later chunk
\* of the run, ceil(n/10) files are written for n rows, every file holds 1 to
\* 10 rows, and so any mini-batch of 2 files holds at most 20 rows.
C8_OneFilePerChunk ==
    \A k \in Sections : ChunkActive(k) =>
      LET ws == written[k]
          n == Len(batch_df)
      IN /\ \A m \in 1..Len(ws) :
              /\ ws[m].name = Str(ws[m].off) \o <<"batch_input.csv">>
              /\ Len(ws[m].rows) >= 1
              /\ Len(ws[m].rows) <= 10
              /\ \E f \in 1..Len(folders[k]) :
                     /\ folders[k][f].name = ws[m].name
                     /\ folders[k][f].rows = ws[m].rows
         /\ \A m1, m2 \in 1..Len(ws) :
              /\ m1 # m2 => ws[m1].name # ws[m2].name
              /\ m1 # m2 => Len(ws[m1].rows) + Len(ws[m2].rows)
                               <= mini_batch_size * 10
         /\ ChunkLoopDone(k) => Len(ws) = (n + 9) \div 10

\* 21 rows went to the three files 0, 10 and 20 of the third folder
C8_Witness ==
    /\ ChunkLoopDone(3)
    /\ Len(batch_df) = 21
    /\ Len(written[3]) = 3
    /\ written[3][3].name = <<"2", "0", "batch_input.csv">>
    /\ Len(folders[3]) >= 3

----------------------------------------------------------------------------
(* Properties of the invocation sections *)

Invokes(tr) == SelectSeq(tr, LAMBDA ev : ev.op = "invoke")
FailedInvokes(tr) == SelectSeq(tr, LAMBDA ev : ev.op = "invoke" /\ ev.res # "ok")
Sleeps(tr) == SelectSeq(tr, LAMBDA ev : ev.op = "sleep")
Streams(tr) == SelectSeq(tr, LAMBDA ev : ev.op = "stream")

\* C2: in each invocation section the invoke call is issued at most 3 times
\* (calls returned so far plus the call in flight), whatever the outcomes.
C2_AtMostThreeInvokes ==
    Len(Invokes(trace)) + inflight <= 3

\* a third invoke of a section has returned
C2_Witness ==
    /\ Len(Invokes(trace)) = 3
    /\ trace[Len(trace)].op = "invoke"
    /\ trace[Len(trace)].res = "ok"

\* C3: when all 3 invoke attempts of a section have failed, the run has
\* stopped with the exception of the third attempt, raised as it is, and no
\* job was streamed in that section.
C3_LastExceptionRaised ==
    Len(FailedInvokes(trace)) = 3 =>
      /\ pc = <<"stopped", 0>>
      /\ failedAt[1] = "invoking"
      /\ raised = FailedInvokes(trace)[3].res
      /\ FailedInvokes(trace)[3].n = 2
      /\ raised \in RemoteErrors
      /\ trace[Len(trace)] = Event("raise", 2, FailedInvokes(trace)[3].res, 0)
      /\ Streams(trace) = <<>>
      /\ job = <<>>

\* three attempts failed, the first and the third with different exceptions
C3_Witness ==
    /\ Len(FailedInvokes(trace)) = 3
    /\ FailedInvokes(trace)[1].res = "ResourceNotFoundError"
    /\ FailedInvokes(trace)[3].res = "HttpResponseError"
    /\ raised = "HttpResponseError"

\* C4: every sleep lasts 5 seconds and directly follows a failed attempt that
\* is not the last one; every attempt after the first directly follows exactly
\* one such sleep; nothing sleeps after a success or after the final failure;
\* a section sleeps at most twice.
C4_FixedSleepBetweenAttempts ==
    /\ \A p \in 1..Len(trace) :
         trace[p].op = "sleep" =>
           /\ trace[p].n = 5
           /\ p > 1
           /\ trace[p - 1].op = "invoke"
           /\ trace[p - 1].res # "ok"
           /\ trace[p - 1].n < 2
           /\ p < Len(trace) => /\ trace[p + 1].op = "invoke"
                                /\ trace[p + 1].n = trace[p - 1].n + 1
    /\ \A p \in 1..Len(trace) :
         trace[p].op = "invoke" =>
           IF trace[p].n = 0
             THEN p = 1
             ELSE /\ p > 2
                  /\ trace[p - 1].op = "sleep"
                  /\ trace[p - 2].op = "invoke"
                  /\ trace[p - 2].res # "ok"
                  /\ trace[p - 2].n = trace[p].n - 1
    /\ Len(Sleeps(trace)) <= 2
    /\ pc[1] = "sleep" => /\ trace # <<>>
                          /\ trace[Len(trace)].op = "invoke"
                          /\ trace[Len(trace)].res # "ok"
                          /\ trace[Len(trace)].n < 2

\* a section slept twice and then made its third attempt
C4_Witness ==
    /\ Len(Sleeps(trace)) = 2
    /\ Len(Invokes(trace)) = 3

\* C5: an exception raised by an attempt that is not the last one leads to a
\* sleep and then to a further attempt, whatever its type.
C5_NoErrorClassification ==
    \A p \in 1..Len(trace) :
      (trace[p].op = "invoke" /\ trace[p].res # "ok" /\ trace[p].n < 2) =>
        IF p = Len(trace)
          THEN pc[1] = "sleep"
          ELSE /\ trace[p + 1].op = "sleep"
               /\ IF p + 1 = Len(trace)
                    THEN pc[1] \in {"loop", "invoking"}
                    ELSE /\ trace[p + 2].op = "invoke"
                         /\ trace[p + 2].n = trace[p].n + 1

\* a missing resource on the first attempt was followed by a sleep and a
\* second attempt
C5_Witness ==
    /\ Len(trace) >= 3
    /\ trace[1] = Event("invoke", 0, "ResourceNotFoundError", 0)
    /\ trace[2].op = "sleep"
    /\ trace[3].op = "invoke"

----------------------------------------------------------------------------
(* Properties of the error handling outside the retry loop *)

\* the cell that makes each call
CellOf(call) ==
    CASE call \in {"get_token", "from_config"} -> <<"cell2", 0>>
      [] call \in {"compute.get", "compute.create"} -> <<"compute", 0>>
      [] call = "models.get" -> <<"model", 0>>
      [] call = "urlretrieve" -> <<"dataset", 0>>
      [] call = "Image" -> <<"sample", 0>>
      [] call = "endpoint.create" -> <<"endpoint", 0>>
      [] call = "deployment.create" -> <<"deployment", 0>>
      [] call = "endpoint.update" -> <<"default", 0>>
      [] call = "endpoint.delete" -> <<"delete", 0>>

StoppedBy(f) ==
    /\ pc = <<"stopped", 0>>
    /\ raised = f[2]
    /\ IF f[1] = "jobs.stream" THEN failedAt[1] = "streaming"
       ELSE IF f[1] = "jobs.download" THEN failedAt[1] = "download"
       ELSE failedAt = CellOf(f[1])

\* C6 as stated: every failure of a call other than invoke propagates
\* unhandled and stops the run.
C6_EveryOtherFailurePropagates ==
    \A f \in failures : pc = <<"stopped", 0>> /\ raised = f[2]

\* C6 as amended: besides the retry around invoke the code handles three
\* failures: a failed token request (falls back to the interactive
\* credential), a failed workspace configuration load (falls back to the
\* placeholders) and a ResourceNotFoundError of the compute lookup (creates
\* the cluster); every other failure of a call stops the run with that
\* exception.
C6_OnlyFallbacksHandled ==
    \A f \in failures :
      CASE f[1] = "get_token" ->
             /\ credential = "InteractiveBrowserCredential"
             /\ failedAt # <<"cell2", 0>>
        [] f[1] = "from_config" ->
             /\ workspace = "placeholders"
             /\ failedAt # <<"cell2", 0>>
        [] f = <<"compute.get", "ResourceNotFoundError">> ->
             /\ compute_creates = 1
             /\ failedAt = <<"compute", 0>> =>
                  \E exc \in RemoteErrors :
                     /\ <<"compute.create", exc>> \in failures
                     /\ raised = exc
        [] OTHER -> StoppedBy(f)

\* a token failure was handled and, later, a failed download stopped the run
C6_Witness ==
    /\ \E exc \in RemoteErrors : <<"get_token", exc>> \in failures
    /\ <<"jobs.download", "HttpResponseError">> \in failures
    /\ pc = <<"stopped", 0>>

----------------------------------------------------------------------------
(* Properties of the order of the remote calls *)

StreamedOk(tr, upto, jb) ==
    \E q \in 1..upto :
      /\ tr[q] = Event("stream", 0, "ok", jb)
      /\ \E r \in 1..(q - 1) :
           tr[r].op = "invoke" /\ tr[r].res = "ok" /\ tr[r].job = jb

\* C9: at most one invoke call is in flight at any time, and the download of
\* a section is issued only after jobs.stream has returned for the job of
\* that section (the job has completed), which was called only after an
\* invoke that returned that job.
C9_SequentialBlockingCalls ==
    /\ inflight <= 1
    /\ inflight = 1 <=> pc[1] = "invoking"
    /\ \A p \in 1..Len(trace) :
         trace[p].op = "stream" =>
           \E r \in 1..(p - 1) :
             /\ trace[r].op = "invoke"
             /\ trace[r].res = "ok"
             /\ trace[r].job = trace[p].job
    /\ \A p \in 1..Len(trace) :
         trace[p].op = "download" =>
           /\ StreamedOk(trace, p - 1, trace[p].job)
           /\ jobs[trace[p].job] = "Completed"
    /\ pc[1] = "download" =>
           /\ job # <<>>
           /\ StreamedOk(trace, Len(trace), Val(job))
           /\ jobs[Val(job)] = "Completed"

\* the second section has downloaded the output of its job
C9_Witness ==
    /\ trace # <<>>
    /\ trace[Len(trace)] = Event("download", 0, "ok", 2)
    /\ pc = <<"start", 3>>

\* C10: an invoke is issued only after the endpoint was created, then the
\* deployment, then the default deployment set, and never while the endpoint
\* has no default deployment.
C10_InvokeAfterDefaultSet ==
    /\ pc[1] = "invoking" =>
         /\ endpoint.exists
         /\ deployment_name \in endpoint.deployments
         /\ endpoint.default = deployment_name
         /\ deploy_log = <<"endpoint", "deployment", "default">>
    /\ Invokes(trace) # <<>> =>
         /\ Len(deploy_log) >= 3
         /\ SubSeq(deploy_log, 1, 3) = <<"endpoint", "deployment", "default">>

\* an invoke call is in flight
C10_Witness ==
    /\ pc[1] = "invoking"
    /\ inflight = 1

----------------------------------------------------------------------------
(* Properties of the rows of the combined image and text input *)

\* C12: in the DataFrame of section 3.4, row k pairs image k with the text
\* "a photo of a <class>" of the directory of image k's own path.
C12_TextOfOwnImagePath ==
    ChunkActive(3) =>
      /\ Len(batch_df) = Len(image_path_list)
      /\ \A n \in 1..Len(batch_df) :
           batch_df[n] = <<read_image(image_path_list[n]),
                           <<"a photo of a ", image_path_list[n][1]>> >>

----------------------------------------------------------------------------
(* Properties of the end of the retry loop *)

StreamCalls(tr) ==
    SelectSeq(tr, LAMBDA ev : ev.op = "stream" /\ ev.res = "called")
OkInvokes(tr) ==
    SelectSeq(tr, LAMBDA ev : ev.op = "invoke" /\ ev.res = "ok")

\* C13: within a section nothing is invoked and nothing sleeps after the
\* first successful invoke; jobs.stream is called exactly once, with the job
\* that invoke returned; and whenever the loop is left without raising, job
\* is not None, so the guard before jobs.stream never skips it.
C13_StreamOnceAfterSuccess ==
    /\ \A p \in 1..Len(trace) :
         (trace[p].op = "invoke" /\ trace[p].res = "ok") =>
           /\ \A q \in (p + 1)..Len(trace) :
                trace[q].op \notin {"invoke", "sleep"}
           /\ pc[1] \notin {"loop", "invoking", "sleep"}
           /\ job = <<trace[p].job>>
    /\ Len(StreamCalls(trace)) <= 1
    /\ \A p \in 1..Len(trace) :
         (trace[p].op = "stream" /\ trace[p].res = "called") =>
           /\ p > 1
           /\ trace[p - 1].op = "invoke"
           /\ trace[p - 1].res = "ok"
           /\ trace[p - 1].job = trace[p].job
    /\ pc[1] \in {"afterloop", "streaming", "download"} =>
           /\ job # <<>>
           /\ Len(OkInvokes(trace)) = 1
    /\ pc[1] \in {"streaming", "download"} => Len(StreamCalls(trace)) = 1

\* a section failed once, then obtained a job and has streamed it
C13_Witness ==
    /\ pc[1] = "download"
    /\ Len(FailedInvokes(trace)) = 1
    /\ Len(OkInvokes(trace)) = 1
    /\ Len(StreamCalls(trace)) = 1
    /\ StreamCalls(trace)[1].job = Val(job)

----------------------------------------------------------------------------
(* Properties across the three invocation sections *)

InSection(k) ==
    /\ pc[2] = k
    /\ pc[1] \in {"loop", "invoking", "sleep", "afterloop", "streaming",
                  "download"}

\* C15: every section starts with job = None and a budget of 3 attempts of
\* its own: the attempts it has used are exactly the invoke calls it issued
\* itself, whatever earlier sections used, and the job it streams and
\* downloads is the one its own invoke returned.
C15_SectionsIndependent ==
    \A k \in Sections :
      /\ (pc = <<"loop", k>> /\ it = 0) => (job = <<>> /\ trace = <<>>)
      /\ InSection(k) =>
           /\ it = history.invokes[k]
           /\ it = Len(Invokes(trace)) + inflight
           /\ it <= 3
           /\ \A k2 \in Sections : k2 > k => history.invokes[k2] = 0
           /\ pc[1] = "loop" => it < 3
           /\ job # <<>> => history.owner[Val(job)] = k
           /\ \A p \in 1..Len(trace) :
                trace[p].op \in {"stream", "download"} =>
                  /\ trace[p].job \in 1..Len(history.owner)
                  /\ history.owner[trace[p].job] = k

\* the second section makes its third attempt after the first section needed
\* all three of its own
C15_Witness ==
    /\ pc = <<"invoking", 2>>
    /\ history.invokes[1] = 3
    /\ history.invokes[2] = 3

----------------------------------------------------------------------------
(* Termination of the retry cell *)

\* the section obtained a job and called jobs.stream with it
JobStreamed(k) ==
    /\ pc[2] = k
    /\ pc[1] \in {"streaming", "download"}
    /\ job # <<>>
    /\ Len(StreamCalls(trace)) = 1
    /\ StreamCalls(trace)[1].job = Val(job)

\* the section raised the exception of its last attempt
LastRaised(k) ==
    /\ pc = <<"stopped", 0>>
    /\ failedAt = <<"invoking", k>>
    /\ trace # <<>>
    /\ trace[Len(trace)].op = "raise"
    /\ FailedInvokes(trace) # <<>>
    /\ raised = FailedInvokes(trace)[Len(FailedInvokes(trace))].res

\* the retry cell of the section has ended
RetryCellEnded(k) ==
    \/ pc[2] = k /\ pc[1] \in {"streaming", "download"}
    \/ pc = <<"stopped", 0>> /\ failedAt[2] = k
         /\ failedAt[1] \in {"invoking", "afterloop"}

\* C14: every section's retry cell ends, after at most 3 invokes and 2
\* sleeps, in exactly one of two ways: a job was obtained and jobs.stream
\* called with it, or the last exception was raised.
C14_RetryCellTerminates ==
    /\ [](\A k \in Sections :
            RetryCellEnded(k) =>
              /\ Len(Invokes(trace)) <= 3
              /\ Len(Sleeps(trace)) <= 2
              /\ JobStreamed(k) \/ LastRaised(k)
              /\ ~(JobStreamed(k) /\ LastRaised(k)))
    /\ \A k \in Sections :
         (pc = <<"start", k>>) ~> (JobStreamed(k) \/ LastRaised(k))

\* the third section ended by streaming the job of its third attempt
C14_Witness ==
    /\ pc = <<"streaming", 3>>
    /\ Len(Invokes(trace)) = 3
    /\ Len(Sleeps(trace)) = 2
    /\ JobStreamed(3)

----------------------------------------------------------------------------
(* Properties of the compute cell *)

NotFound == <<"compute.get", "ResourceNotFoundError">>

\* C16: a run of the compute cell issues a create request if and only if its
\* lookup raised ResourceNotFoundError; an existing cluster is neither created
\* again nor changed, so a further run after a successful one issues no
\* create; and when the cell has completed the compute target exists.
C16_GetOrCreate ==
    /\ [](compute_creates <= 1)
    /\ [](pc = <<"model", 0>> => compute_exists)
    /\ [][ (pc = <<"compute", 0>> /\ pc' # pc) =>
             /\ compute_creates' \in {compute_creates, compute_creates + 1}
             /\ (compute_creates' = compute_creates + 1)
                   <=> (NotFound \in failures' /\ NotFound \notin failures)
             /\ compute_exists =>
                   (compute_exists' /\ compute_creates' = compute_creates)
             /\ pc' = <<"model", 0>> => compute_exists' ]_vars

\* the cluster was created by the first run and the cell has completed a
\* second run without another create
C16_Witness ==
    /\ pc = <<"model", 0>>
    /\ history.reruns = 1
    /\ compute_creates = 1
    /\ compute_exists
    /\ NotFound \in failures

----------------------------------------------------------------------------
(* Properties of the clean-up cell *)

\* a cell of an invocation section raised
SectionRaised ==
    /\ pc = <<"stopped", 0>>
    /\ failedAt[1] \in {"invoking", "afterloop", "streaming", "download"}

\* C17: the endpoint is deleted only by the last cell, which is reached only
\* when the download of each of the three sections has returned; when a cell
\* of a section raises, no delete is issued and the endpoint and its
\* deployment remain.
C17_DeleteOnlyAfterAllSections ==
    /\ pc = <<"delete", 0>> => history.completed = <<1, 2, 3>>
    /\ "delete" \in {deploy_log[n] : n \in 1..Len(deploy_log)} =>
         /\ pc = <<"done", 0>>
         /\ raised = "None"
         /\ history.completed = <<1, 2, 3>>
         /\ deploy_log[Len(deploy_log)] = "delete"
    /\ ~endpoint.exists /\ Len(deploy_log) > 0 => pc = <<"done", 0>>
    /\ SectionRaised =>
         /\ "delete" \notin {deploy_log[n] : n \in 1..Len(deploy_log)}
         /\ endpoint.exists
         /\ deployment_name \in endpoint.deployments

\* the second section gave up after its third failed invoke, the first one
\* having completed, and the endpoint is still there
C17_Witness ==
    /\ SectionRaised
    /\ failedAt = <<"invoking", 2>>
    /\ history.completed = <<1>>
    /\ history.invokes[2] = 3
    /\ endpoint.exists

====
